---------------------------- MODULE Spec2Model ----------------------------
(***************************************************************************)
(* A model of the gruid SDL driver (src/sdl.go): the Driver struct, its    *)
(* configuration calls (SetTileManager, SetScale, SetWindowTitle,          *)
(* PreventQuit), its lifecycle (Init, Flush, Close), its event translation *)
(* (PollMsg) and its poll loop (PollMsgs).                                 *)
(*                                                                         *)
(* One goroutine, the owner, runs Init, Flush, PollMsg, PollMsgs and       *)
(* Close.  Other goroutines (Foreign) make configuration calls.  A call of *)
(* a foreign goroutine is modelled in the steps at which it reads or       *)
(* writes shared driver state, so that the owner's operations interleave   *)
(* with it as the Go scheduler allows.                                     *)
(*                                                                         *)
(* Scale factors are float32 in the source.  The model keeps them in       *)
(* tenths (20 is 2.0): 0, 0.5, 1.0 and 2.0 are exact in float32 and the    *)
(* products with the small integers used here are exact too, so            *)
(* int32(float32(n) * s) is (n * s) \div 10.                               *)
(*                                                                         *)
(* Fields fullscreen, accelerated and icon of Driver only choose flags of  *)
(* native calls; no modelled state depends on them and they are left out.  *)
(***************************************************************************)
EXTENDS Integers, Sequences, FiniteSets, TLC

VARIABLES
    dr,      \* the Driver struct, with the native objects its handles name
    call,    \* per foreign goroutine: the configuration call in progress
    pc,      \* the owner goroutine's position
    frame,   \* the frame of the Flush in progress
    idx,     \* index of the next cell Flush draws
    events,  \* the native event queue sdl.PollEvent reads
    msg,     \* the value the last PollMsg returned
    ctx,     \* PollMsgs' context: "live" or "done"
    sent,    \* messages PollMsgs delivered since its context was cancelled
    track,   \* the latest SetTileManager call made while no Flush runs
    ret      \* what the last Init returned or the last Close did

vars == <<dr, call, pc, frame, idx, events, msg, ctx, sent, track, ret>>

(***************************************************************************)
(* Values                                                                  *)
(***************************************************************************)
Nil == "nil"

\* A nil map[gruid.Cell]*sdl.Texture: it holds no cell
NilMap == {Nil}

\* A nil *sdl.Window and a nil *sdl.Renderer
NilWindow == [nil |-> TRUE, alive |-> FALSE, w |-> 0, h |-> 0, title |-> ""]
NilRenderer == [nil |-> TRUE, alive |-> FALSE, sx |-> 0, sy |-> 0]

\* A nil gruid.Msg
NoMsg == [type |-> "nil"]

Owner == "owner"

\* The goroutines that make configuration calls
Foreign == {"g1", "g2"}

\* Tile managers handed to the driver.  tmZ breaks the interface's
\* "both should be positive" and reports a zero and a negative size.
TileManagers == {"tmA", "tmB", "tmZ"}

\* TileManager.TileSize
TileSize(tm) ==
    CASE tm = "tmA" -> [X |-> 2, Y |-> 3]
      [] tm = "tmB" -> [X |-> 3, Y |-> 2]
      [] tm = "tmZ" -> [X |-> 0, Y |-> -1]

Cells == {"c1", "c2"}

Point(x, y) == [X |-> x, Y |-> y]

DefaultWidth == 80
DefaultHeight == 24
DefaultTitle == "gruid go-sdl2"

\* Capacity of the actions channel
ActionsCap == 4

NoErr == "ok"
ErrNoTileManager == "no tile manager provided"
ErrSdlInit == "sdl.Init failed"
ErrWindow == "failed to create sdl window"
ErrRenderer == "failed to create sdl renderer"

\* Outcomes of the native calls of Init that may fail
InitOutcomes == {"ok", "sdl", "window", "renderer"}

(***************************************************************************)
(* The deferred actions: the closures fn of the configuration calls        *)
(***************************************************************************)
ActTileManager(tm) == [kind |-> "tm", tm |-> tm]
ActScale(sx, sy) == [kind |-> "scale", sx |-> sx, sy |-> sy]
ActTitle(s) == [kind |-> "title", title |-> s]

\* scale > 0.1, with the scale in tenths
GtEps(s) == s > 1

\* int32(float32(n) * s), with s in tenths
Scaled(n, s) == (n * s) \div 10

\* Marks a mutation of the texture cache or of a native handle by goroutine who
Touch(d, who) == [d EXCEPT !.touched = @ \cup {who}]

\* The window size resizeWindow asks for under scale factors sx, sy
SizeFor(d, sx, sy) ==
    IF GtEps(sx) /\ GtEps(sy)
    THEN [w |-> Scaled(d.width * d.tw, sx), h |-> Scaled(d.height * d.th, sy)]
    ELSE [w |-> d.width * d.tw, h |-> d.height * d.th]

\* Driver.resizeWindow
resizeWindow(d, who) ==
    LET sz == SizeFor(d, d.scaleX, d.scaleY)
    IN  Touch([d EXCEPT !.window.w = sz.w, !.window.h = sz.h], who)

\* Driver.setScale; ok is whether renderer.SetScale succeeded
setScale(d, scaleX, scaleY, ok, who) ==
    IF ~ok
    THEN d
    ELSE resizeWindow(
             [d EXCEPT !.renderer.sx = scaleX, !.renderer.sy = scaleY,
                       !.scaleX = scaleX, !.scaleY = scaleY,
                       !.touched = @ \cup {who}],
             who)

\* ClearCache evicting one entry instead of all
ClearCache_EvictsOne(d, who) ==
    IF d.textures = NilMap \/ d.textures = {}
    THEN d
    ELSE LET c == CHOOSE x \in d.textures : TRUE
         IN  Touch([d EXCEPT !.livetex = @ \ {c}, !.textures = @ \ {c}], who)

\* Driver.ClearCache: destroys every texture of the map and empties it (a
\* nil map stays nil)
ClearCache(d, who) ==
    IF d.textures = NilMap \/ d.textures = {}
    THEN d
    ELSE Touch([d EXCEPT !.livetex = @ \ d.textures, !.textures = {}], who)

\* The value as the tile manager reports it
Clamp1_Unclamped(n) == n

\* A value with its lower clamp, as lines 98-103 do for tw and th
Clamp1(n) == IF n <= 0 THEN 1 ELSE n

\* fn of SetTileManager without its dr.ClearCache() (line 105)
fnSetTileManager_KeepsCache(d, tm, ok, who) ==
    LET p  == TileSize(tm)
        d1 == [d EXCEPT !.tm = tm, !.tw = Clamp1(p.X), !.th = Clamp1(p.Y)]
    IN  IF ~d1.init
        THEN d1
        ELSE LET scale == GtEps(d1.scaleX) /\ GtEps(d1.scaleY) /\ ok
                 d3 == IF scale
                       THEN setScale(d1, d1.scaleX, d1.scaleY, TRUE, who)
                       ELSE resizeWindow([d1 EXCEPT !.scaleX = 0, !.scaleY = 0], who)
             IN  [d3 EXCEPT !.reqredraw = TRUE]

\* The closure fn of SetTileManager; ok is whether renderer.SetScale succeeds
fnSetTileManager(d, tm, ok, who) ==
    LET p  == TileSize(tm)
        d1 == [d EXCEPT !.tm = tm, !.tw = Clamp1(p.X), !.th = Clamp1(p.Y)]
    IN  IF ~d1.init
        THEN d1
        ELSE LET d2 == ClearCache(d1, who)
                 scale == GtEps(d2.scaleX) /\ GtEps(d2.scaleY) /\ ok
                 d3 == IF scale
                       THEN setScale(d2, d2.scaleX, d2.scaleY, TRUE, who)
                       ELSE resizeWindow([d2 EXCEPT !.scaleX = 0, !.scaleY = 0], who)
             IN  [d3 EXCEPT !.reqredraw = TRUE]

\* The closure fn of SetScale
fnSetScale(d, sx, sy, ok, who) == setScale(d, sx, sy, ok, who)

\* The closure fn of SetWindowTitle
fnSetWindowTitle(d, s, who) == Touch([d EXCEPT !.window.title = s], who)

\* Runs a deferred action
RunAction(d, a, ok, who) ==
    CASE a.kind = "tm" -> fnSetTileManager(d, a.tm, ok, who)
      [] a.kind = "scale" -> fnSetScale(d, a.sx, a.sy, ok, who)
      [] a.kind = "title" -> fnSetWindowTitle(d, a.title, who)

\* A send that always adds to the channel
Enqueue_Unbounded(q, a) == Append(q, a)

\* select { case dr.actions <- fn: default: } on a channel of capacity 4
Enqueue(q, a) == IF Len(q) < ActionsCap THEN Append(q, a) ELSE q

(***************************************************************************)
(* Construction                                                            *)
(***************************************************************************)
\* The zero value of Driver.  Beside the fields of the struct the record
\* holds the native state the handles stand for: sdlUp (the subsystem
\* between sdl.Init and sdl.Quit), livetex (the cells whose texture is
\* created and not destroyed), and two observations of the native calls:
\* touched (the goroutines that called into the cache or a native handle)
\* and misuse (a Destroy of something not alive).
ZeroDriver ==
    [tm |-> Nil, width |-> 0, height |-> 0, tw |-> 0, th |-> 0,
     window |-> NilWindow, renderer |-> NilRenderer, textures |-> NilMap,
     mousepos |-> Point(0, 0), mousedrag |-> "MouseMain",
     init |-> FALSE, reqredraw |-> FALSE, noQuit |-> FALSE,
     actions |-> <<>>, scaleX |-> 0, scaleY |-> 0, title |-> "",
     sdlUp |-> FALSE, livetex |-> {}, touched |-> {}, misuse |-> FALSE]

\* NewDriver.  cfg.TileManager is not nil: fn calls tm.TileSize(), which
\* panics on a nil interface, so NewDriver returns no driver for it.
NewDriver(cfg) ==
    LET d == [ZeroDriver EXCEPT
                !.width = IF cfg.Width <= 0 THEN DefaultWidth ELSE cfg.Width,
                !.height = IF cfg.Height <= 0 THEN DefaultHeight ELSE cfg.Height,
                !.title = IF cfg.WindowTitle = "" THEN DefaultTitle
                          ELSE cfg.WindowTitle]
    IN  fnSetTileManager(d, cfg.TileManager, TRUE, Owner)

\* Configurations the drivers of the model are built from
Configs ==
    {[TileManager |-> "tmA", Width |-> 2, Height |-> 2, WindowTitle |-> ""],
     [TileManager |-> "tmZ", Width |-> 0, Height |-> 0, WindowTitle |-> "t0"]}

(***************************************************************************)
(* Init and Close                                                          *)
(***************************************************************************)
\* Init, lines 197-239: d has a tile manager
InitNative(d0, out, ok) ==
    LET done(x) == [x EXCEPT !.textures = {}, !.mousedrag = "none", !.init = TRUE]
    IN  IF d0.init
        THEN [dr |-> done(resizeWindow(d0, Owner)), err |-> NoErr]
        ELSE IF out = "sdl"
        THEN [dr |-> d0, err |-> ErrSdlInit]
        ELSE LET d1 == [d0 EXCEPT !.sdlUp = TRUE] IN
        IF out = "window"
        THEN [dr |-> [d1 EXCEPT !.window = NilWindow], err |-> ErrWindow]
        ELSE LET d2 == [d1 EXCEPT !.window =
                          [nil |-> FALSE, alive |-> TRUE, w |-> d1.width * d1.tw,
                           h |-> d1.height * d1.th, title |-> d1.title]] IN
        IF out = "renderer"
        THEN [dr |-> [d2 EXCEPT !.renderer = NilRenderer], err |-> ErrRenderer]
        ELSE LET d3 == [d2 EXCEPT !.renderer =
                          [nil |-> FALSE, alive |-> TRUE, sx |-> 10, sy |-> 10]]
                 d4 == IF GtEps(d3.scaleX) \/ GtEps(d3.scaleY)
                       THEN setScale(d3, d3.scaleX, d3.scaleY, ok, Owner)
                       ELSE d3
             IN  [dr |-> done(Touch(d4, Owner)), err |-> NoErr]

\* Init without the check of lines 194-196
DriverInit_Unchecked(d, out, ok) ==
    InitNative([d EXCEPT !.reqredraw = FALSE, !.actions = <<>>], out, ok)

\* Driver.Init; out is the outcome of the native calls that may fail, ok of
\* renderer.SetScale.  Returns the driver and the error.
DriverInit(d, out, ok) ==
    LET d0 == [d EXCEPT !.reqredraw = FALSE, !.actions = <<>>]
    IN  IF d0.tm = Nil
        THEN [dr |-> d0, err |-> ErrNoTileManager]
        ELSE InitNative(d0, out, ok)

\* A native Destroy: destroying what is not alive is a misuse of the handle
Destroy(h) == [h EXCEPT !.alive = FALSE]

\* Close without the check of lines 651-653
Close_Unguarded(d) ==
    LET d1 == [ClearCache(d, Owner) EXCEPT !.textures = NilMap]
        d2 == IF ~d1.noQuit
              THEN [d1 EXCEPT
                      !.misuse = @ \/ ~d1.renderer.alive \/ ~d1.window.alive
                                   \/ ~d1.sdlUp,
                      !.renderer = Destroy(@),
                      !.window = Destroy(@),
                      !.sdlUp = FALSE,
                      !.touched = @ \cup {Owner},
                      !.init = FALSE]
              ELSE d1
    IN  [d2 EXCEPT !.noQuit = FALSE]

\* Close without the dr.ClearCache() of line 654
Close_KeepsTextures(d) ==
    IF ~d.init
    THEN d
    ELSE LET d1 == [d EXCEPT !.textures = NilMap]
             d2 == IF ~d1.noQuit
                   THEN [d1 EXCEPT
                           !.renderer = Destroy(@), !.window = Destroy(@),
                           !.sdlUp = FALSE, !.init = FALSE]
                   ELSE d1
         IN  [d2 EXCEPT !.noQuit = FALSE]

\* What a Close call on d does
CloseKind(d) ==
    IF ~d.init THEN "Close: no-op"
    ELSE IF d.noQuit THEN "Close: kept"
    ELSE "Close: quit"

\* Driver.Close
Close(d) ==
    IF ~d.init
    THEN d
    ELSE LET d1 == [ClearCache(d, Owner) EXCEPT !.textures = NilMap]
             d2 == IF ~d1.noQuit
                   THEN [d1 EXCEPT
                           !.misuse = @ \/ ~d1.renderer.alive \/ ~d1.window.alive
                                        \/ ~d1.sdlUp,
                           !.renderer = Destroy(@),
                           !.window = Destroy(@),
                           !.sdlUp = FALSE,
                           !.touched = @ \cup {Owner},
                           !.init = FALSE]
                   ELSE d1
         IN  [d2 EXCEPT !.noQuit = FALSE]



(***************************************************************************)
(* Drawing                                                                 *)
(***************************************************************************)
\* TileManager.GetImage: tmZ has no image for c2
GetImage(tm, cell) == IF tm = "tmZ" /\ cell = "c2" THEN Nil ELSE <<tm, cell>>

\* Driver.draw; up is whether the conversion and upload of the image succeed
draw(d, cell, x, y, up) ==
    IF cell \in d.textures
    THEN Touch(d, Owner)
    ELSE IF GetImage(d.tm, cell) = Nil \/ ~up
    THEN d
    ELSE Touch([d EXCEPT !.textures = @ \cup {cell}, !.livetex = @ \cup {cell}],
               Owner)

\* Frames handed to Flush
Frames ==
    {[Width |-> 2, Height |-> 2,
      Cells |-> <<[P |-> Point(0, 0), Cell |-> "c1"]>>],
     [Width |-> 3, Height |-> 1,
      Cells |-> <<[P |-> Point(1, 0), Cell |-> "c1"],
                  [P |-> Point(2, 0), Cell |-> "c2"]>>]}

NoFrame == [Width |-> 0, Height |-> 0, Cells |-> <<>>]

(***************************************************************************)
(* The tracked SetTileManager call                                         *)
(***************************************************************************)
\* state: "queued" when the send put the action in the channel, "dropped"
\* when the channel was full; pos: how many actions the channel holds up to
\* and including the tracked one (0 once it has been received)
NoTrack == [state |-> "none", tm |-> Nil, pos |-> 0]

Tracked(d, a) ==
    IF Len(d.actions) < ActionsCap
    THEN [state |-> "queued", tm |-> a.tm, pos |-> Len(d.actions) + 1]
    ELSE [state |-> "dropped", tm |-> a.tm, pos |-> 0]

Received(tr) == [tr EXCEPT !.pos = IF @ > 0 THEN @ - 1 ELSE 0]

(***************************************************************************)
(* Initial states                                                          *)
(***************************************************************************)
Idle == [pc |-> "idle"]

Init ==
    /\ dr \in {NewDriver(cfg) : cfg \in Configs} \cup {ZeroDriver}
    /\ call = [t \in Foreign |-> Idle]
    /\ pc = "idle"
    /\ frame = NoFrame
    /\ idx = 0
    /\ events = <<>>
    /\ msg = NoMsg
    /\ ctx = "live"
    /\ sent = 0
    /\ track = NoTrack
    /\ ret = NoErr

ownerVars == <<pc, frame, idx>>
pollVars == <<events, msg, ctx, sent>>

(***************************************************************************)
(* Configuration calls of a foreign goroutine                              *)
(***************************************************************************)
\* SetTileManager, line 121: reads dr.init and takes a branch
SetTileManagerCall(t, tm) ==
    /\ call[t].pc = "idle"
    /\ call' = [call EXCEPT ![t] =
                  [pc |-> IF dr.init THEN "enqueue" ELSE "fn",
                   act |-> ActTileManager(tm)]]
    /\ UNCHANGED <<dr, ownerVars, pollVars, track, ret>>

\* SetTileManager, line 127: fn() on the calling goroutine
SetTileManagerFn(t) ==
    /\ call[t].pc = "fn"
    /\ \E ok \in BOOLEAN : dr' = fnSetTileManager(dr, call[t].act.tm, ok, t)
    /\ call' = [call EXCEPT ![t] = Idle]
    /\ track' = NoTrack
    /\ UNCHANGED <<ownerVars, pollVars, ret>>

\* SetScale without its two assignments
SetScaleWrite_Deferred(d, sx, sy) == d

\* SetScale, lines 157-158
SetScaleWrite(d, sx, sy) == [d EXCEPT !.scaleX = sx, !.scaleY = sy]

\* SetScale, lines 157-159: writes the fields and reads dr.init
SetScaleCall(t, sx, sy) ==
    /\ call[t].pc = "idle"
    /\ dr' = SetScaleWrite(dr, sx, sy)
    /\ call' = [call EXCEPT ![t] =
                  IF dr.init THEN [pc |-> "enqueue", act |-> ActScale(sx, sy)]
                  ELSE Idle]
    /\ UNCHANGED <<ownerVars, pollVars, track, ret>>

\* SetWindowTitle, line 172
SetWindowTitleWrite(d, s) == [d EXCEPT !.title = s]

\* SetWindowTitle, lines 172-173: writes the field and reads dr.init
SetWindowTitleCall(t, s) ==
    /\ call[t].pc = "idle"
    /\ dr' = SetWindowTitleWrite(dr, s)
    /\ call' = [call EXCEPT ![t] =
                  IF dr.init THEN [pc |-> "enqueue", act |-> ActTitle(s)]
                  ELSE Idle]
    /\ UNCHANGED <<ownerVars, pollVars, track, ret>>

\* The non-blocking send of the three calls (lines 122-125, 160-163, 174-177)
EnqueueAction(t) ==
    /\ call[t].pc = "enqueue"
    /\ dr' = [dr EXCEPT !.actions = Enqueue(@, call[t].act)]
    /\ call' = [call EXCEPT ![t] = Idle]
    /\ track' =
         IF call[t].act.kind # "tm" THEN track
         ELSE IF pc \in {"drain", "draw"} \/ ~dr.init THEN NoTrack
         ELSE Tracked(dr, call[t].act)
    /\ UNCHANGED <<ownerVars, pollVars, ret>>

\* Driver.PreventQuit
PreventQuit ==
    /\ pc = "idle"
    /\ dr' = [dr EXCEPT !.noQuit = TRUE]
    /\ UNCHANGED <<call, ownerVars, pollVars, track, ret>>

(***************************************************************************)
(* The owner's lifecycle calls                                             *)
(***************************************************************************)
\* Init is called on a driver that is not running: a new one, or one closed
DoInit(out) ==
    /\ pc = "idle"
    /\ dr.textures = NilMap
    /\ \E ok \in BOOLEAN :
         LET r == DriverInit(dr, out, ok)
         IN  dr' = r.dr /\ ret' = r.err
    /\ track' = NoTrack
    /\ UNCHANGED <<call, ownerVars, pollVars>>

\* ret tells a quit that follows a Close that kept the session
DoClose ==
    /\ pc = "idle"
    /\ dr' = Close(dr)
    /\ ret' = IF ret = "Close: kept" /\ CloseKind(dr) = "Close: quit"
              THEN "Close: quit after kept"
              ELSE CloseKind(dr)
    /\ track' = NoTrack
    /\ UNCHANGED <<call, ownerVars, pollVars>>

(***************************************************************************)
(* Flush                                                                   *)
(***************************************************************************)
\* Flush is called on a running driver
FlushBegin(f) ==
    /\ pc = "idle"
    /\ dr.init /\ dr.textures # NilMap
    /\ pc' = "drain" /\ frame' = f /\ idx' = 1
    /\ UNCHANGED <<dr, call, pollVars, track, ret>>

\* A receive that takes the action sent last
Receive_Last(q) == [fn |-> q[Len(q)], rest |-> SubSeq(q, 1, Len(q) - 1)]

\* fn := <-dr.actions on a channel that holds q: the action sent first
Receive(q) == [fn |-> Head(q), rest |-> Tail(q)]

\* Lines 581-588, case fn := <-dr.actions
FlushDrain ==
    /\ pc = "drain"
    /\ dr.actions # <<>>
    /\ \E ok \in BOOLEAN :
         LET r == Receive(dr.actions)
         IN  dr' = RunAction([dr EXCEPT !.actions = r.rest], r.fn, ok, Owner)
    /\ track' = Received(track)
    /\ UNCHANGED <<call, ownerVars, pollVars, ret>>

\* Lines 589-593
FlushResizeStep(d, f) ==
    IF f.Width # d.width \/ f.Height # d.height
    THEN resizeWindow([d EXCEPT !.width = f.Width, !.height = f.Height], Owner)
    ELSE d

\* Lines 585-593: the queue is empty, break, then the resize
FlushResize ==
    /\ pc = "drain"
    /\ dr.actions = <<>>
    /\ dr' = FlushResizeStep(dr, frame)
    /\ pc' = "draw"
    /\ UNCHANGED <<call, frame, idx, pollVars, track, ret>>

\* Lines 594-598, one cell
FlushDraw ==
    /\ pc = "draw"
    /\ idx <= Len(frame.Cells)
    /\ \E up \in BOOLEAN :
         LET fc == frame.Cells[idx]
         IN  dr' = draw(dr, fc.Cell, fc.P.X, fc.P.Y, up)
    /\ idx' = idx + 1
    /\ UNCHANGED <<call, pc, frame, pollVars, track, ret>>

\* Line 599
FlushPresent ==
    /\ pc = "draw"
    /\ idx > Len(frame.Cells)
    /\ pc' = "idle" /\ frame' = NoFrame /\ idx' = 0
    /\ track' = NoTrack
    /\ UNCHANGED <<dr, call, pollVars, ret>>

Flush == FlushDrain \/ FlushResize \/ FlushDraw \/ FlushPresent

(***************************************************************************)
(* Event translation.  Messages leave out Time and the modifier bits read  *)
(* from sdl.GetModState, which no modelled state depends on.               *)
(***************************************************************************)
\* Go's integer division, which truncates toward zero
GoDiv(a, b) ==
    IF (a >= 0) = (b > 0)
    THEN (IF a >= 0 THEN a ELSE -a) \div (IF b > 0 THEN b ELSE -b)
    ELSE -((IF a >= 0 THEN a ELSE -a) \div (IF b > 0 THEN b ELSE -b))

\* Driver.coords; int32(float32(x) / scale) with the scale in tenths
coords(d, x, y) ==
    LET scaled == GtEps(d.scaleX) /\ GtEps(d.scaleY)
        x1 == IF scaled THEN GoDiv(x * 10, d.scaleX) ELSE x
        y1 == IF scaled THEN GoDiv(y * 10, d.scaleY) ELSE y
    IN  Point(GoDiv(x1 - 1, d.tw), GoDiv(y1 - 1, d.th))

InGrid(d, p) == p.X >= 0 /\ p.X < d.width /\ p.Y >= 0 /\ p.Y < d.height

MsgMouse(action, p) == [type |-> "MsgMouse", Action |-> action, P |-> p]
MsgScreen(w, h) == [type |-> "MsgScreen", Width |-> w, Height |-> h]
MsgQuit == [type |-> "MsgQuit"]
MsgKeyDown(key) == [type |-> "MsgKeyDown", Key |-> key]

\* The gruid.MouseAction of an sdl button, lines 440-449
ButtonAction(button) ==
    CASE button = "BUTTON_LEFT" -> "MouseMain"
      [] button = "BUTTON_MIDDLE" -> "MouseAuxiliary"
      [] button = "BUTTON_RIGHT" -> "MouseSecondary"
      [] OTHER -> Nil

\* pollMouseButtonEvent with a press accepted during a drag (no lines 454-456)
pollMouseButtonEvent_PressDuringDrag(d, ev) ==
    LET action == ButtonAction(ev.Button)
        p == coords(d, ev.X, ev.Y)
    IN  IF action = Nil THEN [dr |-> d, msg |-> NoMsg]
        ELSE IF ev.Type = "MOUSEBUTTONDOWN"
        THEN IF ~InGrid(d, p)
             THEN [dr |-> d, msg |-> NoMsg]
             ELSE [dr |-> [d EXCEPT !.mousedrag = action, !.mousepos = p],
                   msg |-> MsgMouse(action, p)]
        ELSE IF d.mousedrag # action
             THEN [dr |-> d, msg |-> NoMsg]
             ELSE LET q == IF InGrid(d, p) THEN p ELSE Point(0, 0)
                  IN  [dr |-> [d EXCEPT !.mousedrag = "none", !.mousepos = q],
                       msg |-> MsgMouse("MouseRelease", q)]

\* pollMouseButtonEvent with the drag reset by every release
pollMouseButtonEvent_ReleaseResets(d, ev) ==
    LET action == ButtonAction(ev.Button)
        p == coords(d, ev.X, ev.Y)
    IN  IF action = Nil THEN [dr |-> d, msg |-> NoMsg]
        ELSE IF ev.Type = "MOUSEBUTTONDOWN"
        THEN IF d.mousedrag # "none"
             THEN [dr |-> d, msg |-> NoMsg]
             ELSE IF ~InGrid(d, p)
             THEN [dr |-> d, msg |-> NoMsg]
             ELSE [dr |-> [d EXCEPT !.mousedrag = action, !.mousepos = p],
                   msg |-> MsgMouse(action, p)]
        ELSE IF d.mousedrag # action
             THEN [dr |-> [d EXCEPT !.mousedrag = "none"], msg |-> NoMsg]
             ELSE LET q == IF InGrid(d, p) THEN p ELSE Point(0, 0)
                  IN  [dr |-> [d EXCEPT !.mousedrag = "none", !.mousepos = q],
                       msg |-> MsgMouse("MouseRelease", q)]

\* Driver.pollMouseButtonEvent
pollMouseButtonEvent(d, ev) ==
    LET action == ButtonAction(ev.Button)
        p == coords(d, ev.X, ev.Y)
    IN  IF action = Nil THEN [dr |-> d, msg |-> NoMsg]
        ELSE IF ev.Type = "MOUSEBUTTONDOWN"
        THEN IF d.mousedrag # "none"
             THEN [dr |-> d, msg |-> NoMsg]
             ELSE IF ~InGrid(d, p)
             THEN [dr |-> d, msg |-> NoMsg]
             ELSE [dr |-> [d EXCEPT !.mousedrag = action, !.mousepos = p],
                   msg |-> MsgMouse(action, p)]
        ELSE IF d.mousedrag # action
             THEN [dr |-> d, msg |-> NoMsg]
             ELSE LET q == IF InGrid(d, p) THEN p ELSE Point(0, 0)
                  IN  [dr |-> [d EXCEPT !.mousedrag = "none", !.mousepos = q],
                       msg |-> MsgMouse("MouseRelease", q)]

\* pollMouseMotionEvent without the test of lines 496-498
pollMouseMotionEvent_Repeats(d, ev) ==
    LET p == coords(d, ev.X, ev.Y)
    IN  IF ~InGrid(d, p)
        THEN [dr |-> d, msg |-> NoMsg]
        ELSE [dr |-> [d EXCEPT !.mousepos = p], msg |-> MsgMouse("MouseMove", p)]

\* pollMouseMotionEvent recording the cell of every event
pollMouseMotionEvent_AlwaysRecords(d, ev) ==
    LET p == coords(d, ev.X, ev.Y)
    IN  IF p = d.mousepos \/ ~InGrid(d, p)
        THEN [dr |-> [d EXCEPT !.mousepos = p], msg |-> NoMsg]
        ELSE [dr |-> [d EXCEPT !.mousepos = p], msg |-> MsgMouse("MouseMove", p)]

\* Driver.pollMouseMotionEvent
pollMouseMotionEvent(d, ev) ==
    LET p == coords(d, ev.X, ev.Y)
    IN  IF p = d.mousepos \/ ~InGrid(d, p)
        THEN [dr |-> d, msg |-> NoMsg]
        ELSE [dr |-> [d EXCEPT !.mousepos = p], msg |-> MsgMouse("MouseMove", p)]

\* Driver.pollMouseWheelEvent
pollMouseWheelEvent(d, ev) ==
    IF ev.Y > 0 THEN [dr |-> d, msg |-> MsgMouse("MouseWheelUp", d.mousepos)]
    ELSE IF ev.Y < 0 THEN [dr |-> d, msg |-> MsgMouse("MouseWheelDown", d.mousepos)]
    ELSE [dr |-> d, msg |-> NoMsg]

\* Driver.pollWindowEvent
pollWindowEvent(d, ev) ==
    IF ev.Event = "WINDOWEVENT_EXPOSED"
    THEN [dr |-> d,
          msg |-> MsgScreen(GoDiv(d.window.w, d.tw), GoDiv(d.window.h, d.th))]
    ELSE [dr |-> d, msg |-> NoMsg]

\* Driver.pollTextInputEvent; the event's text is kept with its rune count
pollTextInputEvent(d, ev) ==
    IF ev.Runes # 1
    THEN [dr |-> d, msg |-> NoMsg]
    ELSE [dr |-> d, msg |-> MsgKeyDown(ev.Text)]

\* Driver.pollKeyboardEvent, for the keys the model's events use: K_DOWN,
\* K_KP_2 (arrow down unless num lock is on) and K_a (no special key)
pollKeyboardEvent(d, ev) ==
    LET key == IF ev.Sym = "K_DOWN" THEN "KeyArrowDown"
               ELSE IF ev.Sym = "K_KP_2" /\ ~ev.NumLock THEN "KeyArrowDown"
               ELSE ""
    IN  IF ev.Type = "KEYUP" \/ key = ""
        THEN [dr |-> d, msg |-> NoMsg]
        ELSE [dr |-> d, msg |-> MsgKeyDown(key)]

\* The switch of PollMsg, lines 276-297
Translate(d, ev) ==
    CASE ev.type = "QuitEvent" -> [dr |-> d, msg |-> MsgQuit]
      [] ev.type = "TextInputEvent" -> pollTextInputEvent(d, ev)
      [] ev.type = "KeyboardEvent" -> pollKeyboardEvent(d, ev)
      [] ev.type = "MouseButtonEvent" -> pollMouseButtonEvent(d, ev)
      [] ev.type = "MouseMotionEvent" -> pollMouseMotionEvent(d, ev)
      [] ev.type = "MouseWheelEvent" -> pollMouseWheelEvent(d, ev)
      [] ev.type = "WindowEvent" -> pollWindowEvent(d, ev)
      [] OTHER -> [dr |-> d, msg |-> NoMsg]

\* One iteration of the loop of PollMsg, lines 265-302, on driver d and
\* event queue q.  ret tells whether PollMsg returns or the loop continues.
PollMsgIter(d, q) ==
    IF d.reqredraw
    THEN [dr |-> [d EXCEPT !.reqredraw = FALSE], events |-> q, ret |-> TRUE,
          msg |-> MsgScreen(GoDiv(d.window.w, d.tw), GoDiv(d.window.h, d.th))]
    ELSE IF q = <<>>
    THEN [dr |-> d, events |-> q, ret |-> TRUE, msg |-> NoMsg]
    ELSE LET r == Translate(d, Head(q))
         IN  [dr |-> r.dr, events |-> Tail(q), ret |-> r.msg # NoMsg, msg |-> r.msg]

\* Longest native event queue of the model
MaxEvents == 2

\* The native backend queues an event
PushEvent(ev) ==
    /\ dr.init
    /\ Len(events) < MaxEvents
    /\ events' = Append(events, ev)
    /\ UNCHANGED <<dr, call, ownerVars, msg, ctx, sent, track, ret>>

\* PollMsg called by the owner: one iteration of its loop.  The owner is at
\* "PollMsg" while the loop continues.
PollMsg ==
    /\ pc \in {"idle", "PollMsg"}
    /\ dr.init /\ dr.textures # NilMap
    /\ LET r == PollMsgIter(dr, events)
       IN  /\ dr' = r.dr
           /\ events' = r.events
           /\ msg' = r.msg
           /\ pc' = IF r.ret THEN "idle" ELSE "PollMsg"
    /\ UNCHANGED <<call, frame, idx, ctx, sent, track, ret>>

(***************************************************************************)
(* PollMsgs                                                                *)
(***************************************************************************)
PollMsgsBegin ==
    /\ pc = "idle"
    /\ dr.init /\ dr.textures # NilMap
    /\ pc' = "PollMsgs.PollMsg"
    /\ ctx' = "live"
    /\ sent' = 0
    /\ msg' = NoMsg
    /\ UNCHANGED <<dr, call, frame, idx, events, track, ret>>

\* Line 309: one iteration of the loop of PollMsg
PollMsgsPoll ==
    /\ pc = "PollMsgs.PollMsg"
    /\ LET r == PollMsgIter(dr, events)
       IN  /\ dr' = r.dr
           /\ events' = r.events
           /\ msg' = r.msg
           /\ pc' = IF r.ret THEN "PollMsgs.select" ELSE "PollMsgs.PollMsg"
    /\ UNCHANGED <<call, frame, idx, ctx, sent, track, ret>>

\* The first select without its case <-ctx.Done()
AfterPoll_Unchecked(c, m) == IF m = NoMsg THEN "PollMsgs.sleep" ELSE "PollMsgs.send"

\* Lines 310-322: where the first select leads, by the context and the message
AfterPoll(c, m) ==
    IF c = "done" THEN "idle"
    ELSE IF m = NoMsg THEN "PollMsgs.sleep"
    ELSE "PollMsgs.send"

PollMsgsSelect ==
    /\ pc = "PollMsgs.select"
    /\ pc' = AfterPoll(ctx, msg)
    /\ UNCHANGED <<dr, call, frame, idx, events, msg, ctx, sent, track, ret>>

\* Lines 323-328: the timer fires and the loop continues, or the context is
\* done and PollMsgs returns; with both ready the select takes either
PollMsgsSleep ==
    /\ pc = "PollMsgs.sleep"
    /\ \/ pc' = "PollMsgs.PollMsg"
       \/ ctx = "done" /\ pc' = "idle"
    /\ UNCHANGED <<dr, call, frame, idx, events, msg, ctx, sent, track, ret>>

\* Lines 331-335, case msgs <- msg: the consumer receives the message
PollMsgsSend ==
    /\ pc = "PollMsgs.send"
    /\ pc' = "PollMsgs.PollMsg"
    /\ sent' = IF ctx = "done" /\ sent < 2 THEN sent + 1 ELSE sent
    /\ UNCHANGED <<dr, call, frame, idx, events, msg, ctx, track, ret>>

\* Lines 331-335, case <-ctx.Done()
PollMsgsSendCancelled ==
    /\ pc = "PollMsgs.send"
    /\ ctx = "done"
    /\ pc' = "idle"
    /\ UNCHANGED <<dr, call, frame, idx, events, msg, ctx, sent, track, ret>>

\* The context of the running PollMsgs is cancelled
Cancel ==
    /\ pc \in {"PollMsgs.PollMsg", "PollMsgs.select", "PollMsgs.sleep", "PollMsgs.send"}
    /\ ctx = "live"
    /\ ctx' = "done"
    /\ UNCHANGED <<dr, call, ownerVars, events, msg, sent, track, ret>>

(***************************************************************************)
(* Specification Spec: SetTileManager and SetScale calls of a foreign       *)
(* goroutine against Init, Flush and Close of the owner.  The native calls *)
(* of Init succeed.                                                        *)
(***************************************************************************)
ScaleArgs == {<<20, 20>>}
TitleArgs == {"t1"}
Caller == {"g1"}
TileManagerArgs == {"tmA", "tmB"}

ConfigFrames ==
    {[Width |-> 3, Height |-> 1,
      Cells |-> <<[P |-> Point(1, 0), Cell |-> "c1"]>>]}

InitConfig ==
    /\ Init
    /\ dr = NewDriver([TileManager |-> "tmA", Width |-> 2, Height |-> 2,
                       WindowTitle |-> ""])

Next ==
    \/ \E t \in Caller, tm \in TileManagerArgs : SetTileManagerCall(t, tm)
    \/ \E t \in Caller : SetTileManagerFn(t)
    \/ \E t \in Caller, s \in ScaleArgs : SetScaleCall(t, s[1], s[2])
    \/ \E t \in Caller : EnqueueAction(t)
    \/ DoInit("ok")
    \/ DoClose
    \/ \E f \in ConfigFrames : FlushBegin(f)
    \/ FlushDrain
    \/ FlushResize
    \/ FlushDraw
    \/ FlushPresent

Spec == InitConfig /\ [][Next]_vars

\* The Flush in progress is about to draw its first cell
AtFirstDraw == pc = "draw" /\ idx = 1 /\ Len(frame.Cells) >= 1

\* The window has the size resizeWindow gives it for the driver's grid and
\* tile size, under one of the scales the driver has had
WindowFits(d) ==
    \E s \in ScaleArgs \cup {<<0, 0>>} :
        [w |-> d.window.w, h |-> d.window.h] = SizeFor(d, s[1], s[2])

\* The tracked SetTileManager(tm) has taken effect
TileManagerApplied ==
    /\ track.pos = 0
    /\ dr.tm = track.tm
    /\ dr.tw = Clamp1(TileSize(track.tm).X)
    /\ dr.th = Clamp1(TileSize(track.tm).Y)
    /\ dr.textures = {}
    /\ WindowFits(dr)

C2_OwnerOnly == dr.touched \subseteq {Owner}

(***************************************************************************)
(* Specification SpecCalls: the three configuration calls against Init and *)
(* Flush of the owner.  Goroutine g1 makes any of the calls, goroutine g2  *)
(* makes SetScale calls at the same time.                                  *)
(***************************************************************************)
NextCalls ==
    \/ \E t \in Caller : SetTileManagerCall(t, "tmB")
    \/ \E t \in Foreign : SetTileManagerFn(t)
    \/ \E t \in Foreign, s \in ScaleArgs : SetScaleCall(t, s[1], s[2])
    \/ \E t \in Caller, s \in TitleArgs : SetWindowTitleCall(t, s)
    \/ \E t \in Foreign : EnqueueAction(t)
    \/ DoInit("ok")
    \/ \E f \in ConfigFrames : FlushBegin(f)
    \/ FlushDrain
    \/ FlushResize
    \/ FlushDraw
    \/ FlushPresent

SpecCalls == InitConfig /\ [][NextCalls]_vars

\* Goroutine t takes the send step of its call, with the channel full
Drops(t) ==
    /\ call[t].pc = "enqueue"
    /\ call'[t].pc = "idle"
    /\ Len(dr.actions) = ActionsCap

\* C3: the action queue never holds more than 4 actions; a goroutine at the
\* send of a configuration call can always take it (the call does not
\* block); with 4 actions pending the send returns with the queue unchanged.
C3_BoundedNonBlocking ==
    /\ [](Len(dr.actions) <= ActionsCap)
    /\ [](\A t \in Foreign : call[t].pc = "enqueue" => ENABLED EnqueueAction(t))
    /\ [][\A t \in Foreign : Drops(t) => dr'.actions = dr.actions]_vars

C3_Witness ==
    /\ track.state = "dropped"
    /\ Len(dr.actions) = ActionsCap
    /\ \A t \in Foreign : call[t].pc = "idle"

\* Goroutine t begins a configuration call on the initialized driver
Begins(t) ==
    /\ call[t].pc = "idle"
    /\ call'[t].pc = "enqueue"

\* The plain fields of the driver hold what the call of action a asked for
FieldsSet(d, a) ==
    CASE a.kind = "tm" -> /\ d.tm = a.tm
                          /\ d.tw = Clamp1(TileSize(a.tm).X)
                          /\ d.th = Clamp1(TileSize(a.tm).Y)
      [] a.kind = "scale" -> d.scaleX = a.sx /\ d.scaleY = a.sy
      [] a.kind = "title" -> d.title = a.title

TileFieldsKept == dr'.tm = dr.tm /\ dr'.tw = dr.tw /\ dr'.th = dr.th

\* C4, as claimed: every configuration call on the initialized driver writes
\* its plain fields at once, before its send.
C4_EveryCallWritesFields ==
    [][\A t \in Foreign : Begins(t) => FieldsSet(dr', call'[t].act)]_vars

\* C4, amended: SetScale and SetWindowTitle write scaleX, scaleY and title
\* before their send; SetTileManager on the initialized driver writes
\* nothing itself: tm, tw and th stay as they are when the call begins and
\* when its send returns, dropped or not.
C4_ScaleAndTitleWriteFields ==
    [][\A t \in Foreign :
         /\ Begins(t) =>
              IF call'[t].act.kind = "tm"
              THEN TileFieldsKept
              ELSE FieldsSet(dr', call'[t].act)
         /\ (call[t].pc = "enqueue" /\ call'[t].pc = "idle"
               /\ call[t].act.kind = "tm") => TileFieldsKept]_vars

\* A SetScale call has written its fields and is about to be dropped
C4_Witness ==
    \E t \in Foreign :
        /\ call[t].pc = "enqueue"
        /\ call[t].act.kind = "scale"
        /\ FieldsSet(dr, call[t].act)
        /\ Len(dr.actions) = ActionsCap
        /\ dr.renderer.sx # call[t].act.sx

(***************************************************************************)
(* Specification SpecLife: the lifecycle of the driver, with every outcome *)
(* of Init's native calls                                                  *)
(***************************************************************************)
NextLife ==
    \/ \E t \in Foreign : SetTileManagerCall(t, "tmB")
    \/ \E t \in Foreign : SetTileManagerFn(t)
    \/ \E t \in Foreign : EnqueueAction(t)
    \/ PreventQuit
    \/ \E out \in InitOutcomes : DoInit(out)
    \/ DoClose
    \/ \E f \in Frames : FlushBegin(f)
    \/ FlushDrain
    \/ FlushResize
    \/ FlushDraw
    \/ FlushPresent

SpecLife == Init /\ [][NextLife]_vars

\* C8: a Close with the keep-alive flag set empties the texture cache,
\* leaves window, renderer and subsystem alive and resets the flag; the
\* Close after it destroys the three and leaves the driver uninitialized,
\* and Init then succeeds again.
C8_KeepAliveThenQuit ==
    (pc = "idle" /\ dr.init /\ dr.noQuit) =>
        LET c1 == Close(dr)
            c2 == Close(c1)
            r  == DriverInit(c2, "ok", TRUE)
        IN  /\ c1.textures = NilMap /\ c1.livetex = {}
            /\ c1.window.alive /\ c1.renderer.alive /\ c1.sdlUp
            /\ c1.init /\ ~c1.noQuit
            /\ ~c2.window.alive /\ ~c2.renderer.alive /\ ~c2.sdlUp
            /\ ~c2.init /\ ~c2.misuse
            /\ r.err = NoErr /\ r.dr.init /\ r.dr.window.alive /\ r.dr.sdlUp

\* The second Close of PreventQuit, Close, Close has run
C8_Witness ==
    /\ ret = "Close: quit after kept"
    /\ ~dr.init /\ ~dr.noQuit
    /\ ~dr.window.nil /\ ~dr.window.alive /\ ~dr.renderer.alive /\ ~dr.sdlUp

\* C9, as claimed: in every state in which the owner may call Close, two
\* Close calls in a row leave the driver and the native resources as one does.
C9_CloseIdempotent ==
    pc = "idle" => Close(Close(dr)) = Close(dr)

\* C9, amended: the same, unless the driver is initialized with the
\* keep-alive flag set (then the first Close keeps the session and the
\* second one destroys it).
C9_CloseIdempotentUnlessKept ==
    (pc = "idle" /\ ~(dr.init /\ dr.noQuit)) => Close(Close(dr)) = Close(dr)

\* A Close on the driver that a Close has closed
C9_Witness ==
    /\ ret = "Close: no-op"
    /\ ~dr.init /\ ~dr.window.nil /\ ~dr.window.alive /\ ~dr.misuse

\* C10: with no tile manager Init returns the error, whatever the native
\* calls would do, creates neither subsystem, window nor renderer, and
\* leaves the driver uninitialized.
C10_InitWithoutTileManager ==
    (pc = "idle" /\ dr.tm = Nil) =>
        \A out \in InitOutcomes, ok \in BOOLEAN :
            LET r == DriverInit(dr, out, ok)
            IN  /\ r.err = ErrNoTileManager
                /\ ~r.dr.init
                /\ r.dr.window.nil /\ r.dr.renderer.nil /\ ~r.dr.sdlUp

\* Init has failed on a driver without tile manager
C10_Witness ==
    /\ ret = ErrNoTileManager
    /\ dr.tm = Nil
    /\ ~dr.init /\ dr.window.nil /\ dr.renderer.nil /\ ~dr.sdlUp

(***************************************************************************)
(* Specification SpecInput: the owner polls mouse events one at a time.    *)
(***************************************************************************)
MousePixels == {<<1, 1>>, <<2, 2>>, <<3, 4>>, <<5, 1>>}

ButtonEvents ==
    {[type |-> "MouseButtonEvent", Type |-> t, Button |-> b, X |-> xy[1], Y |-> xy[2]] :
        t \in {"MOUSEBUTTONDOWN", "MOUSEBUTTONUP"},
        b \in {"BUTTON_LEFT", "BUTTON_RIGHT", "BUTTON_X1"},
        xy \in {<<1, 1>>, <<5, 1>>}}

MotionEvents ==
    {[type |-> "MouseMotionEvent", X |-> xy[1], Y |-> xy[2]] : xy \in MousePixels}

WheelEvents == {[type |-> "MouseWheelEvent", Y |-> y] : y \in {-1, 0, 1}}

InputEvents == ButtonEvents \cup MotionEvents \cup WheelEvents

NextInput ==
    \/ DoInit("ok")
    \/ \E ev \in InputEvents : PushEvent(ev)
    \/ PollMsg

SpecInput == InitConfig /\ [][NextInput]_vars

\* PollMsg takes a mouse button event off the native queue in this step
PollsButton ==
    /\ pc \in {"idle", "PollMsg"}
    /\ events # <<>>
    /\ Head(events).type = "MouseButtonEvent"
    /\ events' = Tail(events)

\* The step produces no message: the loop of PollMsg goes on, the driver is
\* as it was
NoMessage == pc' = "PollMsg" /\ dr' = dr

\* C5: at most one button is in drag at a time; while a drag is active a
\* press of any button produces no message and leaves the drag as it is; a
\* release of a button that is not the drag's button produces no message; a
\* release of the drag's button yields one release message and ends the drag.
C5_DragExclusive ==
    [][PollsButton =>
        LET ev == Head(events) IN
        /\ dr'.mousedrag \in {"none", "MouseMain", "MouseAuxiliary", "MouseSecondary"}
        /\ (ev.Type = "MOUSEBUTTONDOWN" /\ dr.mousedrag # "none") => NoMessage
        /\ (ev.Type = "MOUSEBUTTONUP" /\ ButtonAction(ev.Button) # dr.mousedrag)
              => NoMessage
        /\ (ev.Type = "MOUSEBUTTONUP" /\ ButtonAction(ev.Button) = dr.mousedrag)
              => /\ pc' = "idle"
                 /\ msg'.type = "MsgMouse" /\ msg'.Action = "MouseRelease"
                 /\ dr'.mousedrag = "none"]_vars

\* A drag was started and its button's release has been delivered
C5_Witness ==
    /\ pc = "idle" /\ dr.init
    /\ msg.type = "MsgMouse" /\ msg.Action = "MouseRelease"
    /\ dr.mousedrag = "none"

(***************************************************************************)
(* Specification SpecPoll: PollMsgs runs, events arrive, the context is    *)
(* cancelled.  SpecPollFair adds that the goroutine running PollMsgs keeps *)
(* running; the consumer of the channel is not required to receive.        *)
(***************************************************************************)
PollEvents ==
    { [type |-> "QuitEvent"],
      [type |-> "KeyboardEvent", Type |-> "KEYUP", Sym |-> "K_a", NumLock |-> FALSE],
      [type |-> "KeyboardEvent", Type |-> "KEYDOWN", Sym |-> "K_KP_2", NumLock |-> FALSE],
      [type |-> "WindowEvent", Event |-> "WINDOWEVENT_EXPOSED"] }

PollMsgsLoop ==
    \/ PollMsgsPoll
    \/ PollMsgsSelect
    \/ PollMsgsSleep
    \/ PollMsgsSendCancelled

NextPoll ==
    \/ DoInit("ok")
    \/ \E ev \in PollEvents : PushEvent(ev)
    \/ PollMsgsBegin
    \/ PollMsgsLoop
    \/ PollMsgsSend
    \/ Cancel

SpecPoll == InitConfig /\ [][NextPoll]_vars

SpecPollFair == SpecPoll /\ WF_vars(PollMsgsLoop)

\* C6 as stated: once the context is cancelled, no message is delivered on
\* the channel by this call of PollMsgs.
C6_NoneAfterCancel == sent = 0

\* C6: once the context is cancelled, at most one message is delivered on
\* the channel by this call of PollMsgs.
C6_AtMostOneAfterCancel == sent <= 1

\* PollMsgs has returned after delivering a message past the cancellation
C6_Witness == pc = "idle" /\ ctx = "done" /\ sent = 1

\* C7: once the context is cancelled, PollMsgs returns.
C7_ReturnsAfterCancel == (ctx = "done") ~> (pc = "idle")

(***************************************************************************)
(* Failures of Init (specification SpecLife)                               *)
(***************************************************************************)
InitErrors == {ErrSdlInit, ErrWindow, ErrRenderer}

\* C11: after Init has failed at the subsystem, the window or the renderer,
\* the driver is uninitialized and nothing the failed Init created stays
\* live out of the driver's reach: the subsystem and the window are down,
\* or Close brings them down.
C11_FailedInitLeaksNothing ==
    (pc = "idle" /\ ret \in InitErrors) =>
        /\ ~dr.init
        /\ ~Close(dr).sdlUp
        /\ ~Close(dr).window.alive

(***************************************************************************)
(* Specification SpecScreen: window events are polled while a goroutine    *)
(* changes the scale and the tile manager and the owner flushes frames.    *)
(***************************************************************************)
WindowEvents ==
    {[type |-> "WindowEvent", Event |-> "WINDOWEVENT_EXPOSED"],
     [type |-> "WindowEvent", Event |-> "WINDOWEVENT_MOVED"]}

NextScreen ==
    \/ \E t \in Caller : SetTileManagerCall(t, "tmB")
    \/ \E t \in Caller : SetTileManagerFn(t)
    \/ \E t \in Caller, s \in ScaleArgs : SetScaleCall(t, s[1], s[2])
    \/ \E t \in Caller : EnqueueAction(t)
    \/ DoInit("ok")
    \/ \E f \in ConfigFrames : FlushBegin(f)
    \/ FlushDrain
    \/ FlushResize
    \/ FlushDraw
    \/ FlushPresent
    \/ \E ev \in WindowEvents : PushEvent(ev)
    \/ PollMsg

SpecScreen == InitConfig /\ [][NextScreen]_vars

\* The owner may call PollMsg, or is in its loop
MayPoll == pc \in {"idle", "PollMsg"} /\ dr.init /\ dr.textures # NilMap

\* C12: when the next iteration of PollMsg yields a ScreenResize message,
\* from the pending redraw or from an exposed event, the message carries
\* the driver's grid width and height.
C12_ScreenResizeCarriesGrid ==
    MayPoll =>
        LET r == PollMsgIter(dr, events)
        IN  r.msg.type = "MsgScreen" =>
                /\ r.msg.Width = dr.width
                /\ r.msg.Height = dr.height

(***************************************************************************)
(* Specification SpecCache: frames that draw a cell more than once, with   *)
(* the invalidations of the texture cache (ClearCache, a tile manager      *)
(* change, Close) between and inside the flushes.                          *)
(***************************************************************************)
\* draw, lines 621-624: GetImage is called when the map has no entry
GetImageInvoked(d, cell) == cell \notin d.textures

\* ClearCache called by the owner between two other calls
DoClearCache ==
    /\ pc = "idle"
    /\ dr' = ClearCache(dr, Owner)
    /\ UNCHANGED <<call, ownerVars, pollVars, track, ret>>

CacheFrames ==
    {[Width |-> 2, Height |-> 2,
      Cells |-> <<[P |-> Point(0, 0), Cell |-> "c1"],
                  [P |-> Point(1, 0), Cell |-> "c1"],
                  [P |-> Point(0, 1), Cell |-> "c2"]>>]}

NextCache ==
    \/ \E t \in Caller : SetTileManagerCall(t, "tmB")
    \/ \E t \in Caller : SetTileManagerFn(t)
    \/ \E t \in Caller : EnqueueAction(t)
    \/ DoInit("ok")
    \/ DoClose
    \/ DoClearCache
    \/ \E f \in CacheFrames : FlushBegin(f)
    \/ FlushDrain
    \/ FlushResize
    \/ FlushDraw
    \/ FlushPresent

SpecCache == Init /\ [][NextCache]_vars

\* Flush draws cell c in this step
DrawsCell(c) ==
    /\ pc = "draw"
    /\ idx <= Len(frame.Cells)
    /\ frame.Cells[idx].Cell = c
    /\ idx' = idx + 1

\* The step leaves the cache without any entry
CacheCleared == dr'.textures \in {{}, NilMap} /\ dr'.livetex = {}

\* Entries leave the cache all at once only, their textures destroyed, and
\* a cleared cache makes the next draw of any cell call GetImage
WholeCacheInvalidation ==
    \A c \in Cells :
        (~GetImageInvoked(dr, c) /\ GetImageInvoked(dr', c)) =>
            /\ CacheCleared
            /\ \A c2 \in Cells : GetImageInvoked(dr', c2)

\* C13 (every draw): a draw of a cell leaves the cell in the cache, so that
\* until the cache is cleared no further draw of it calls GetImage.
C13_EveryDrawCaches ==
    [][/\ \A c \in Cells : DrawsCell(c) => ~GetImageInvoked(dr', c)
       /\ WholeCacheInvalidation]_vars

\* C13: a draw of a cell that is in the cache does not call GetImage and
\* uses the texture the cache holds, creating and destroying none; a draw
\* that puts the cell in the cache got an image for it; the cell stays in
\* the cache until the whole cache is cleared, and then the next draw of
\* it calls GetImage again.
C13_CachedCellIsReused ==
    [][/\ \A c \in Cells :
            /\ (DrawsCell(c) /\ ~GetImageInvoked(dr, c)) =>
                  /\ dr'.textures = dr.textures
                  /\ dr'.livetex = dr.livetex
            /\ (DrawsCell(c) /\ GetImageInvoked(dr, c) /\ ~GetImageInvoked(dr', c)) =>
                  /\ GetImage(dr.tm, c) # Nil
                  /\ dr'.textures = dr.textures \cup {c}
                  /\ c \in dr'.livetex
       /\ WholeCacheInvalidation]_vars

\* The frame's second draw of c1 has been done with c1 and c2 in the cache
C13_Witness ==
    /\ pc = "draw" /\ idx = 3
    /\ frame.Cells[1].Cell = "c1" /\ frame.Cells[2].Cell = "c1"
    /\ dr.textures = {"c1", "c2"}
    /\ dr.livetex = {"c1", "c2"}

(***************************************************************************)
(* Mouse motion (specification SpecInput)                                  *)
(***************************************************************************)
\* PollMsg takes a mouse motion event off the native queue in this step
PollsMotion ==
    /\ pc \in {"idle", "PollMsg"}
    /\ events # <<>>
    /\ Head(events).type = "MouseMotionEvent"
    /\ events' = Tail(events)

\* The step returns message m from PollMsg
Returns(m) == pc' = "idle" /\ msg' = m

\* C14: a motion event yields a move message to its cell exactly when the
\* cell differs from the recorded mouse position and is inside the grid,
\* and no message otherwise; of two motion events in a row that map to the
\* same cell at most one yields a message.
C14_MoveIffNewCellInGrid ==
    /\ [][PollsMotion =>
            LET p == coords(dr, Head(events).X, Head(events).Y)
            IN  IF p # dr.mousepos /\ InGrid(dr, p)
                THEN Returns(MsgMouse("MouseMove", p))
                ELSE NoMessage]_vars
    /\ [](\A e1, e2 \in MotionEvents :
            (dr.init /\ coords(dr, e1.X, e1.Y) = coords(dr, e2.X, e2.Y)) =>
                LET r1 == pollMouseMotionEvent(dr, e1)
                    r2 == pollMouseMotionEvent(r1.dr, e2)
                IN  r1.msg = NoMsg \/ r2.msg = NoMsg)

\* A move to cell (1, 1) has been delivered, and the next event is a motion
\* inside the cell the mouse is recorded in
C14_Witness ==
    /\ pc = "idle" /\ dr.init
    /\ msg = MsgMouse("MouseMove", Point(1, 1))
    /\ dr.mousepos = Point(1, 1)
    /\ events # <<>>
    /\ Head(events).type = "MouseMotionEvent"
    /\ coords(dr, Head(events).X, Head(events).Y) = dr.mousepos

(***************************************************************************)
(* The order of Flush (specification SpecCalls)                            *)
(***************************************************************************)
\* The step runs the action at the head of the queue on the owner and
\* removes it
RunsHead ==
    \E ok \in BOOLEAN :
        dr' = RunAction([dr EXCEPT !.actions = Tail(@)], Head(dr.actions), ok, Owner)

\* The step is the resize of lines 589-593 for the frame of the Flush
ResizesToFrame ==
    IF frame.Width # dr.width \/ frame.Height # dr.height
    THEN /\ dr'.width = frame.Width /\ dr'.height = frame.Height
         /\ [w |-> dr'.window.w, h |-> dr'.window.h]
                = SizeFor(dr', dr.scaleX, dr.scaleY)
         /\ dr'.actions = dr.actions /\ dr'.textures = dr.textures
    ELSE dr' = dr

\* The step draws the next cell of the frame
DrawsNext ==
    /\ idx <= Len(frame.Cells)
    /\ idx' = idx + 1
    /\ \E up \in BOOLEAN :
         dr' = draw(dr, frame.Cells[idx].Cell, frame.Cells[idx].P.X,
                    frame.Cells[idx].P.Y, up)

\* C15: a Flush drains the queue first, running the actions on the owner
\* in the order they were sent, until the queue is empty; then it resizes
\* the window if the frame's size differs from the grid's; then it draws
\* the cells of the frame, one after the other; then, all cells drawn, it
\* presents.  An action leaves the queue only in the drain of a Flush,
\* where it is run, or when Init replaces the channel, where none is run.
C15_FlushOrder ==
    [][/\ (pc = "idle" /\ pc' # "idle") => (pc' = "drain" /\ idx' = 1 /\ dr' = dr)
       /\ (pc = "drain" /\ dr' # dr /\ Len(dr'.actions) < Len(dr.actions)) =>
              (pc' = "drain" /\ RunsHead)
       /\ (pc = "drain" /\ pc' # "drain") =>
              (pc' = "draw" /\ dr.actions = <<>> /\ ResizesToFrame /\ idx' = 1)
       /\ (pc = "draw" /\ pc' = "draw" /\ idx' # idx) => DrawsNext
       /\ (pc = "draw" /\ pc' # "draw") =>
              (pc' = "idle" /\ idx > Len(frame.Cells) /\ dr' = dr)
       /\ (Len(dr'.actions) < Len(dr.actions)) =>
              \/ pc = "drain" /\ pc' = "drain" /\ RunsHead
              \/ pc = "idle" /\ pc' = "idle" /\ dr'.actions = <<>>
                   /\ \E out \in InitOutcomes, ok \in BOOLEAN :
                        dr' = DriverInit(dr, out, ok).dr
       /\ (dr'.livetex # dr.livetex /\ dr.livetex \subseteq dr'.livetex) =>
              pc = "draw"]_vars

\* A Flush has drained a queue of actions of three kinds, resized the window
\* to its frame and drawn the frame's cell
C15_Witness ==
    /\ pc = "draw" /\ idx > Len(frame.Cells)
    /\ dr.actions = <<>>
    /\ dr.tm = "tmB" /\ dr.window.title = "t1" /\ dr.renderer.sx = 20
    /\ dr.width = frame.Width /\ dr.height = frame.Height
    /\ dr.textures = {"c1"}

(***************************************************************************)
(* The drag after a release (specification SpecInput)                      *)
(***************************************************************************)
\* PollMsg takes a mouse button release off the native queue in this step
PollsRelease == PollsButton /\ Head(events).Type = "MOUSEBUTTONUP"

\* C16 (every release): after a release event has been processed the drag
\* state is none, whether or not the release produced a message.
C16_ReleaseEndsDrag ==
    [][PollsRelease => dr'.mousedrag = "none"]_vars

\* C16: after the release of the drag's button the drag state is none; the
\* release of any other button leaves the drag state as it was.
C16_MatchingReleaseEndsDrag ==
    [][PollsRelease =>
          IF ButtonAction(Head(events).Button) = dr.mousedrag
          THEN dr'.mousedrag = "none"
          ELSE dr'.mousedrag = dr.mousedrag]_vars

\* The release of the main button, outside the grid, has ended its drag
C16_Witness ==
    /\ pc = "idle" /\ dr.init
    /\ msg = MsgMouse("MouseRelease", Point(0, 0))
    /\ dr.mousedrag = "none"
    /\ dr.mousepos = Point(0, 0)

(***************************************************************************)
(* The recorded mouse position (specification SpecInput)                   *)
(***************************************************************************)
\* PollMsg takes a button or motion event off the native queue in this step
PollsMouse == PollsButton \/ PollsMotion

\* C17 (every event): a processed button or motion event leaves the cell of
\* the event as the recorded mouse position, message or not.
C17_EveryEventRecordsCell ==
    [][PollsMouse =>
          dr'.mousepos = coords(dr, Head(events).X, Head(events).Y)]_vars

\* C17: a button or motion event that yields a message leaves the position
\* of the message as the recorded mouse position: the cell of the event,
\* or the origin for a release outside the grid; an event that yields no
\* message leaves the recorded position as it was.
C17_MessageRecordsPosition ==
    [][PollsMouse =>
          LET ev == Head(events)
              p == coords(dr, ev.X, ev.Y)
          IN  IF pc' = "idle"
              THEN /\ msg'.type = "MsgMouse"
                   /\ dr'.mousepos = msg'.P
                   /\ msg'.P = IF msg'.Action = "MouseRelease" /\ ~InGrid(dr, p)
                               THEN Point(0, 0)
                               ELSE p
              ELSE dr'.mousepos = dr.mousepos]_vars

\* A mouse event has yielded no message with the mouse recorded at (1, 1),
\* where an earlier move put it
C17_Witness ==
    /\ pc = "PollMsg" /\ dr.init
    /\ msg = NoMsg
    /\ dr.mousepos = Point(1, 1)
    /\ dr.mousedrag \in {"MouseMain", "MouseSecondary"}

(***************************************************************************)
(* Specification SpecTiles: drivers built by NewDriver, tile managers set  *)
(* before Init (applied at once) and after it (applied by Flush), one of   *)
(* them reporting a zero and a negative tile size.                         *)
(***************************************************************************)
InitNew == Init /\ dr \in {NewDriver(cfg) : cfg \in Configs}

NextTiles ==
    \/ \E t \in Caller, tm \in TileManagers : SetTileManagerCall(t, tm)
    \/ \E t \in Caller : SetTileManagerFn(t)
    \/ \E t \in Caller : EnqueueAction(t)
    \/ DoInit("ok")
    \/ DoClose
    \/ \E f \in ConfigFrames : FlushBegin(f)
    \/ FlushDrain
    \/ FlushResize
    \/ FlushDraw
    \/ FlushPresent

SpecTiles == InitNew /\ [][NextTiles]_vars

\* C18: the tile width and the tile height of a driver built by NewDriver
\* are at least 1, whatever tile sizes its tile managers report.
C18_TileSizeAtLeastOne == dr.tw >= 1 /\ dr.th >= 1

\* The driver built with tile size 2x3 runs with the tile manager of size
\* (0, -1), set after Init
C18_Witness ==
    /\ dr.init /\ dr.reqredraw
    /\ dr.width = 2
    /\ dr.tm = "tmZ"
    /\ TileSize(dr.tm).X = 0 /\ TileSize(dr.tm).Y < 0
    /\ dr.tw = 1 /\ dr.th = 1

(***************************************************************************)
(* Drawing and picking (specification SpecTiles, which applies no scale)   *)
(***************************************************************************)
\* draw, line 642: the rectangle the cell at (x, y) is copied to
DrawRect(d, x, y) == [X |-> x * d.tw, Y |-> y * d.th, W |-> d.tw, H |-> d.th]

\* C19: when Flush is about to draw the cell at grid position P, every
\* pixel of the rectangle it draws to is translated by coords to P.
C19_DrawPickRoundTrip ==
    (pc = "draw" /\ idx <= Len(frame.Cells)) =>
        LET P == frame.Cells[idx].P
            r == DrawRect(dr, P.X, P.Y)
        IN  \A px \in r.X .. (r.X + r.W - 1), py \in r.Y .. (r.Y + r.H - 1) :
                coords(dr, px, py) = P

(***************************************************************************)
(* Specification SpecMouse: mouse events are polled between flushes whose  *)
(* frame changes the size of the grid, while a goroutine changes the tile  *)
(* manager.                                                                *)
(***************************************************************************)
MouseEvents ==
    {[type |-> "MouseMotionEvent", X |-> 3, Y |-> 4],
     [type |-> "MouseWheelEvent", Y |-> -1],
     [type |-> "MouseWheelEvent", Y |-> 1],
     [type |-> "MouseButtonEvent", Type |-> "MOUSEBUTTONDOWN",
      Button |-> "BUTTON_LEFT", X |-> 3, Y |-> 4],
     [type |-> "MouseButtonEvent", Type |-> "MOUSEBUTTONUP",
      Button |-> "BUTTON_LEFT", X |-> 5, Y |-> 1]}

NextMouse ==
    \/ \E t \in Caller : SetTileManagerCall(t, "tmB")
    \/ \E t \in Caller : SetTileManagerFn(t)
    \/ \E t \in Caller : EnqueueAction(t)
    \/ DoInit("ok")
    \/ \E ev \in MouseEvents : PushEvent(ev)
    \/ PollMsg
    \/ \E f \in ConfigFrames : FlushBegin(f)
    \/ FlushDrain
    \/ FlushResize
    \/ FlushDraw
    \/ FlushPresent

SpecMouse == InitConfig /\ [][NextMouse]_vars

\* C20: when the next iteration of PollMsg yields a mouse message, the
\* position of the message is inside the grid the driver has then.
C20_MousePositionInGrid ==
    MayPoll =>
        LET r == PollMsgIter(dr, events)
        IN  r.msg.type = "MsgMouse" => InGrid(r.dr, r.msg.P)

=============================================================================
